---- MODULE Spec2Model ----
(***************************************************************************)
(* Model of the llm-doc-assistant backend: the chat controller             *)
(* (controllers/chat.controller.js), the LangChain query service and the   *)
(* document processor (services/processor.js) and the chat routes          *)
(* (routes/chat.js).                                                       *)
(*                                                                         *)
(* JavaScript strings are TLA+ strings; toLowerCase and includes are       *)
(* computed character by character.  The value undefined, where a string   *)
(* is expected, is UndefinedValue; null and undefined, where a number is   *)
(* expected, are Null and Undef.                                           *)
(***************************************************************************)
EXTENDS Integers, Sequences, FiniteSets, TLC

\* ------------------------------------------------------------------ bounds
\* calls of processMessage started in one run of Spec
MaxCalls == 2
\* calls of processMessage and query started in one run of SpecQuery
MaxQueryCalls == 1
\* calls of processFile and deleteDocument started in one run of SpecQuery
MaxStoreOps == 1
\* calls of processMessage started in one run of SpecEscalate
MaxChats == 1
\* escalation requests made in one run of SpecEscalate
MaxEscalations == 1
\* requests made to the admin routes in one run of SpecAdmin
MaxAdminOps == 2
\* calls of processFile and deleteDocument started in one run of SpecIngest
MaxIngestOps == 2
\* calls of processMessage started in one run of SpecConcurrent
MaxConcurrentCalls == 3
\* calls of processMessage started in one run of SpecLive
MaxLiveCalls == 1
\* readings of Date.now() range over 0..MaxClock in Spec and SpecLive
MaxClock == 1
\* readings of Date.now() range over 0..MaxQueryClock in SpecQuery
MaxQueryClock == 0
\* readings of Date.now() range over 0..MaxEscalationClock in SpecEscalate
MaxEscalationClock == 0

\* the calls of processMessage and query in flight, by slot
Slots == { 1, 2 }

\* the slot of the calls that are made one at a time
Sequential == { 1 }

\* ------------------------------------------------------- JavaScript values
UndefinedValue == "<undefined>"
Null == -1
Undef == -2

\* processor.js 312, 358; chat.controller.js 92
ApologyText == "I'm sorry, I encountered an error while processing your request."

\* chat.controller.js 41
SystemContent == "I am an AI assistant that helps with your documentation."

\* what a template literal or String() makes of undefined
UndefinedString == "undefined"

\* routes/chat.js 75
DefaultReason == "User requested assistance"

RoleUser == "user"

RoleAssistant == "assistant"

RoleSystem == "system"

ColonSpace == ": "

Newline == "\n"

\* formatDocumentsAsString joins page contents with a blank line
DocSeparator == "\n\n"

\* inputs: texts the inference server may return
AnswerConfident == "Within 30 days."

AnswerUpper == "SORRY, I DON'T KNOW."

\* input: a user question
QuestionHours == "open hours"

\* input: an escalation reason
ReasonTest == "test"

\* the status values of a ticket
StatusPending == "pending"

StatusInProgress == "in_progress"

StatusResolved == "resolved"

\* input: a status no ticket may have
StatusClosed == "closed"

\* inputs: the status a client sends with an update; "" is no status
UpdateStatuses == { "", StatusResolved, StatusInProgress, StatusClosed }

\* input: the response text an admin sends with an update
ResponseFixed == "fixed"

\* input: an escalation ID that no escalation created
UnknownEscalationId == "esc-unknown"

\* inputs: chunk texts
TextRefund == "Refunds: 30 days."

TextHours == "Open hours: 9 to 5."

TextSale == "No refund on sale."

\* inputs: messages and codes of the errors a failing embedding or vector-store call raises
MsgRefused == "connect ECONNREFUSED 127.0.0.1:8000"

CodeRefused == "ECONNREFUSED"

MsgOther == "Internal Server Error"

\* message of the TypeError the output parser raises
MsgParser == "Cannot read properties of undefined"

\* --------------------------------------------------------------------- inputs
Questions == { QuestionHours }

\* the texts a successful inference call may return in response.data.content
Answers == { AnswerConfident, AnswerUpper }

\* outcomes of axios.post to the inference server: it throws or times out, it
\* answers without a content field, or it answers with a text
LlamaFailed == "<failed>"

LlamaOutcomes == { LlamaFailed, UndefinedValue } \cup Answers

\* values of Math.random().toString(36).substring(2, 7)
Suffixes == { "k3x9a", "q0z1m" }

\* no suffix: Math.random was not called
NoSuffix == ""

\* the texts query can return
ResponseTexts == Answers \cup { ApologyText }

\* config.documents.chunkSize, the most characters the splitter puts in a chunk
ChunkSize == 1000

\* config.llm.contextWindow, in tokens
ContextWindow == 4096

\* stands for a character outside the tokenizer's vocabulary (a rare CJK
\* character, say), which byte fallback encodes as its three UTF-8 bytes
RareChar == "~"

RECURSIVE Repeat(_, _)
\* String.prototype.repeat
Repeat(s, n) ==
  IF n = 0 THEN ""
  ELSE IF n % 2 = 0 THEN LET h == Repeat(s, n \div 2) IN h \o h
  ELSE s \o Repeat(s, n - 1)

\* input: a chunk of ChunkSize characters outside the vocabulary
TextDense == Repeat(RareChar, ChunkSize)

\* the texts a retrieval can be made with, and the texts of the chunks
QueryTexts == Questions \cup { UndefinedString }
ChunkTexts == { TextRefund, TextHours, TextSale, TextDense }

\* files on disk that processFile may be asked to ingest
PathFaq == "/data/raw/faq.md"
PathSale == "/data/raw/sale.txt"
PathTool == "/data/raw/tool.exe"
PathFaqTxt == "/data/raw/faq.txt"
PathNoteUpper == "/data/raw/NOTE.MD"
PathGlossary == "/data/raw/glossary.txt"

IngestPaths == { PathSale, PathTool }

\* what the loader and the text splitter make of each file: the texts of its
\* chunks, in document order
SplitTexts(filePath) ==
  IF filePath = PathFaq THEN << TextRefund, TextHours >>
  ELSE IF filePath = PathSale THEN << TextSale >>
  ELSE IF filePath = PathFaqTxt THEN << TextHours >>
  ELSE IF filePath = PathNoteUpper THEN << TextSale >>
  ELSE IF filePath = PathGlossary THEN << TextDense, TextDense, TextDense, TextDense >>
  ELSE << >>

\* document IDs deleteDocument may be asked to delete
DeleteIds == { "faq.md", "sale.txt" }

\* ------------------------------------------------------- string operations
UpperLetters ==
  << "A","B","C","D","E","F","G","H","I","J","K","L","M",
     "N","O","P","Q","R","S","T","U","V","W","X","Y","Z" >>

LowerLetters ==
  << "a","b","c","d","e","f","g","h","i","j","k","l","m",
     "n","o","p","q","r","s","t","u","v","w","x","y","z" >>

\* the lower-case letter of each upper-case letter
LowerOf ==
  [c \in { UpperLetters[i] : i \in DOMAIN UpperLetters } |->
     LowerLetters[CHOOSE i \in DOMAIN UpperLetters : UpperLetters[i] = c]]

ToLowerChar(c) == IF c \in DOMAIN LowerOf THEN LowerOf[c] ELSE c

\* the characters of a string, as a sequence of one-character strings
Chars(s) == SubSeq([i \in 1..Len(s) |-> SubSeq(s, i, i)], 1, Len(s))

\* String.prototype.toLowerCase, on the characters of the string
toLowerCase(cs) == SubSeq([i \in 1..Len(cs) |-> ToLowerChar(cs[i])], 1, Len(cs))

\* String.prototype.includes, on the characters of the two strings
includes(cs, sub) ==
  \E i \in 0..(Len(cs) - Len(sub)) : SubSeq(cs, i + 1, i + Len(sub)) = sub

\* what a template literal makes of a value that may be undefined
ToStr(v) == IF v = UndefinedValue THEN UndefinedString ELSE v

RECURSIVE join(_, _)
\* Array.prototype.join
join(parts, sep) ==
  IF Len(parts) = 0 THEN ""
  ELSE IF Len(parts) = 1 THEN parts[1]
  ELSE parts[1] \o sep \o join(Tail(parts), sep)

\* the string of a sequence of characters
Str(cs) == join(cs, "")

\* the last position of the character c in s, 0 when there is none
LastIndexOf(s, c) ==
  LET at == { i \in 1..Len(s) : SubSeq(s, i, i) = c }
  IN  IF at = { } THEN 0 ELSE CHOOSE i \in at : \A j \in at : j <= i

\* path.basename(p)
basename(p) == SubSeq(p, LastIndexOf(p, "/") + 1, Len(p))

\* path.extname(p): from the last dot of the base name on, "" when the base
\* name has no dot or only a leading one
extname(p) ==
  LET b == basename(p)
      i == LastIndexOf(b, ".")
  IN  IF i <= 1 THEN "" ELSE SubSeq(b, i, Len(b))

\* path.basename(p, ext): the base name without the suffix ext
basenameWithout(p, ext) ==
  LET b == basename(p)
  IN  IF /\ Len(ext) > 0
         /\ Len(b) > Len(ext)
         /\ SubSeq(b, Len(b) - Len(ext) + 1, Len(b)) = ext
      THEN SubSeq(b, 1, Len(b) - Len(ext))
      ELSE b

\* a || null on a number that may be undefined
OrNull(v) == IF v \in {0, Null, Undef} THEN Null ELSE v

\* ------------------------------------------------------------ chat controller
lowConfidenceIndicators ==
  { "I don't know", "I'm not sure", "I don't have enough information",
    "I cannot answer", "I'm unable to provide" }

\* shouldEscalate(text) of the controller, for a text that is a string
shouldEscalate(text) ==
  LET lowered == toLowerCase(Chars(text))
  IN  \E indicator \in lowConfidenceIndicators :
        includes(lowered, toLowerCase(Chars(indicator)))

\* shouldEscalate on the texts query can return, computed once
escalationOf == [text \in ResponseTexts |-> shouldEscalate(text)]

\* a mutant of generateConversationId: the ID leaves out the clock reading
generateConversationIdNoClock(t, suffix) == "conv-" \o suffix

\* `conv-${Date.now()}-${Math.random().toString(36).substring(2, 7)}`
generateConversationId(t, suffix) == "conv-" \o ToString(t) \o "-" \o suffix

\* no conversation ID in the request (undefined, or the empty string)
NoId == ""
\* an ID that this server never generated
ForeignId == "conv-unknown"

\* ------------------------------------------------------------ query service
criticalErrors == { "ECONNREFUSED", "ETIMEDOUT", "no documents" }

ErrRefused == [message |-> MsgRefused, code |-> CodeRefused]
ErrOther == [message |-> MsgOther, code |-> UndefinedValue]
ErrParser == [message |-> MsgParser, code |-> UndefinedValue]
NoError == [message |-> "", code |-> UndefinedValue]

\* the errors a failing embedding or vector-store call may raise
RetrievalErrors == { ErrRefused, ErrOther }

\* LangChainService.shouldEscalate(error)
serviceShouldEscalate(error) ==
  \E errType \in criticalErrors :
    \/ includes(Chars(error.message), Chars(errType))
    \/ (error.code # UndefinedValue /\ includes(Chars(error.code), Chars(errType)))

\* config.rag.retrievalK, the number of chunks a retrieval returns
RetrievalK == 4

CharsOf(s) == { SubSeq(s, i, i) : i \in 1..Len(s) }

\* stand-in for the cosine similarity of the embeddings of two texts: a fixed
\* function of the two texts
Similarity(q, text) == Cardinality(CharsOf(q) \cap CharsOf(text))

\* Similarity on the texts of the model, computed once
similarityOf ==
  [q \in QueryTexts, text \in ChunkTexts |-> Similarity(q, text)]

\* retriever.getRelevantDocuments(q) on the collection coll: the RetrievalK
\* most similar chunks, most similar first, ties in insertion order
Retrieve(coll, q) ==
  LET s(i) == similarityOf[ToStr(q), coll[i].pageContent]
      rank(i) == Cardinality({ j \in DOMAIN coll :
                    s(j) > s(i) \/ (s(j) = s(i) /\ j < i) })
      n == IF Len(coll) < RetrievalK THEN Len(coll) ELSE RetrievalK
  IN  [p \in 1..n |-> coll[CHOOSE i \in DOMAIN coll : rank(i) = p - 1]]

\* formatDocumentsAsString(docs)
formatDocumentsAsString(docs) ==
  join([i \in DOMAIN docs |-> docs[i].pageContent], DocSeparator)

\* qaTemplate.format({ question, context }): the prompt posted to the inference
\* server
qaTemplate(p) ==
  "You are an AI assistant for answering questions about internal documentation. "
    \o "Use the following pieces of retrieved context to answer the question. "
    \o "If you don't know the answer, just say that you don't know. "
    \o "Use three sentences maximum and keep the answer concise. "
    \o "Question: " \o ToStr(p.question) \o " Context: " \o p.context \o " Answer:"

\* the least number of tokens the tokenizer makes of a text: three for each
\* character outside its vocabulary
MinTokens(s) == 3 * Cardinality({ i \in 1..Len(s) : SubSeq(s, i, i) = RareChar })

\* the source that query reports for one retrieved chunk
SourceOf(doc) ==
  [source |-> doc.metadata.source,
   page |-> OrNull(doc.metadata.page),
   chunk |-> OrNull(doc.metadata.chunk)]

\* chatHistory.map(msg => `${msg.role}: ${msg.content}`).join('\n')
FormatHistory(chatHistory) ==
  join([i \in DOMAIN chatHistory |->
          chatHistory[i].role \o ColonSpace \o ToStr(chatHistory[i].content)],
       Newline)

\* the file types processFile has a loader for
loaders == { ".pdf", ".docx", ".txt", ".md" }

\* the chunks processFile stores for a file: the split texts with the metadata
\* source (the file name), chunk (the index) and filePath
processedDocs(filePath) ==
  LET texts == SplitTexts(filePath)
  IN  [i \in DOMAIN texts |->
         [pageContent |-> texts[i],
          metadata |-> [source |-> basename(filePath), chunk |-> i - 1,
                        page |-> Undef, filePath |-> filePath]]]

\* a mutant of fromDocuments: the chunks a source already has in the collection
\* are removed before the new ones are added
fromDocumentsReplacing(coll, docs) ==
  SelectSeq(coll, LAMBDA d : \A i \in DOMAIN docs :
                               d.metadata.source # docs[i].metadata.source) \o docs

\* Chroma.fromDocuments(docs, ...) on an existing collection: the documents are
\* added, each under a new ID
fromDocuments(coll, docs) == coll \o docs

\* the manifest entry processFile writes for a file
ManifestInfo(filePath) ==
  [id |-> basename(filePath), originalFile |-> filePath,
   filename |-> basename(filePath), chunks |-> Len(processedDocs(filePath)),
   filetype |-> Str(toLowerCase(Chars(extname(filePath))))]

\* the manifest entry the ingest script writes for a file: originalFile and
\* chunks, and none of the other fields
ScriptManifestInfo(filePath) ==
  [id |-> UndefinedValue, originalFile |-> filePath,
   filename |-> UndefinedValue, chunks |-> Len(processedDocs(filePath)),
   filetype |-> UndefinedValue]

\* how a failed step of an ingestion ends: processFile of the processor throws
\* the error to its caller, processFile of the ingest script catches it, logs
\* it and returns 0
FailureOutcome(op) == IF op = "ingest" THEN "caught" ELSE "failed"

\* the name, without .json, of the manifest file of a path or document ID
ManifestKey(p, ext) == basenameWithout(p, ext)

\* ---------------------------------------------------------------------- state
VARIABLES
  now,            \* the latest reading of Date.now()
  parserBuild,    \* what StringOutputParser makes of a prompt value in this build
  conversations,  \* the Map `conversations`: ID -> reference into heap
  heap,           \* the conversation objects, by reference
  req,            \* per slot: the position and locals of a processMessage/query call
  initialized,    \* LangChainService.initialized
  inits,          \* number of runs of LangChainService.initialize that completed
  calls,          \* number of processMessage and query calls started
  created,        \* log of the conversation creations
  store,          \* the Chroma collection: chunks in insertion order
  manifest,       \* the files of processedDir: name without .json -> content
  ing,            \* the position and locals of a processFile/deleteDocument call
  ops,            \* number of processFile and deleteDocument calls started
  esc,            \* the latest escalation request and its outcome
  escs,           \* number of escalation requests made
  issued,         \* history: the tickets handleEscalation has returned
  admin,          \* the latest request to the admin routes and its answer
  adminOps,       \* number of requests made to the admin routes
  resolved,       \* history: the escalation IDs an update has answered as resolved
  hist,           \* the latest call of getConversationHistory and its result
  client          \* the chat page: the conversation ID it holds

chatVars == << conversations, heap, req, initialized, inits, calls, created >>
storeVars == << store, manifest, ing, ops >>
escVars == << esc, escs, issued >>
adminVars == << admin, adminOps, resolved >>
vars == << now, parserBuild, chatVars, storeVars, escVars, adminVars, hist, client >>

NoResult ==
  [text |-> "", sources |-> << >>, conversationId |-> NoId, escalate |-> FALSE,
   error |-> FALSE]

IdleReq ==
  [pc |-> "idle", via |-> "none", message |-> "", supplied |-> NoId,
   known |-> FALSE, createdAs |-> 0, conversationId |-> NoId, conv |-> 0,
   chatHistory |-> << >>, formattedHistory |-> "", templateHistory |-> "",
   condensed |-> FALSE, question |-> "",
   ctx |-> "none", ctxDocs |-> << >>, prompt |-> [question |-> "", context |-> ""],
   llm |-> "none", llmText |-> "",
   src |-> "none", srcError |-> NoError, srcDocs |-> << >>,
   result |-> NoResult]

IdleIng == [pc |-> "idle", op |-> "none", arg |-> "", outcome |-> "none"]

NoTicket ==
  [escalationId |-> "", conversationId |-> NoId, reason |-> "", status |-> ""]

NoEscalation ==
  [op |-> "none", called |-> FALSE, conversationId |-> NoId, reason |-> "", known |-> FALSE,
   threw |-> FALSE, ticket |-> NoTicket, http |-> 0, body |-> ""]

NullText == "<null>"

NoUpdate ==
  [escalationId |-> "", status |-> "", response |-> NullText, resolvedAt |-> Null]

NoAdmin ==
  [op |-> "none", escalationId |-> "", status |-> "", http |-> 0, body |-> "",
   ticket |-> NoUpdate, list |-> << >>]

\* the state of the Chat component when the page has loaded
NoClient == [conversationId |-> NoId]

NoHistory == [called |-> FALSE, conversationId |-> NoId, conv |-> 0]

Init ==
  /\ now = 0
  /\ parserBuild \in { "undefined", "throws" }
  /\ conversations = << >>
  /\ heap = << >>
  /\ req = [r \in Slots |-> IdleReq]
  /\ initialized = FALSE
  /\ inits = 0
  /\ calls = 0
  /\ created = << >>
  /\ store = processedDocs(PathFaq)
  /\ manifest = (ManifestKey(PathFaq, ".md") :> ManifestInfo(PathFaq))
  /\ ing = IdleIng
  /\ ops = 0
  /\ esc = NoEscalation
  /\ escs = 0
  /\ issued = { }
  /\ admin = NoAdmin
  /\ adminOps = 0
  /\ resolved = { }
  /\ hist = NoHistory
  /\ client = NoClient

\* Map.prototype.set
MapSet(m, k, v) == [x \in DOMAIN m \cup {k} |-> IF x = k THEN v ELSE m[x]]

\* removal of a key
MapDelete(m, k) == [x \in DOMAIN m \ {k} |-> m[x]]

SystemMessage == [role |-> RoleSystem, content |-> SystemContent, sources |-> << >>]
UserMessage(message) == [role |-> RoleUser, content |-> message, sources |-> << >>]
AssistantMessage(response) ==
  [role |-> RoleAssistant, content |-> response.text, sources |-> response.sources]

NewConversation(id, t) ==
  [id |-> id, messages |-> << SystemMessage >>, createdAt |-> t]

\* a mutant of chatHistoryOf: the whole conversation is handed over
chatHistoryWhole(messages) == messages

\* conversation.messages.slice(1): the history handed to query
chatHistoryOf(messages) == Tail(messages)

\* !conversationId || !conversations.has(conversationId)
needsNewConversation(supplied, convs) ==
  supplied = NoId \/ supplied \notin DOMAIN convs

\* a mutant of conversationIdFor: a new conversation keeps the ID the caller
\* supplied
conversationIdKeepSupplied(supplied, convs, t, suffix) ==
  IF supplied = NoId THEN generateConversationId(t, suffix) ELSE supplied

\* the ID processMessage goes on with
conversationIdFor(supplied, convs, t, suffix) ==
  IF needsNewConversation(supplied, convs)
  THEN generateConversationId(t, suffix)
  ELSE supplied

\* the value query returns from its try block
QueryReturn(text, docs) ==
  [text |-> text,
   sources |-> [i \in DOMAIN docs |-> SourceOf(docs[i])],
   escalate |-> FALSE, error |-> FALSE]

\* the value query returns from its catch block: no sources, and escalate as
\* the service's shouldEscalate(error) decides
QueryCatch(error) ==
  [text |-> ApologyText, sources |-> << >>,
   escalate |-> serviceShouldEscalate(error), error |-> TRUE]

\* the failure result of processMessage's catch block
ControllerCatch(rq, h, c) ==
  [heap |-> h, conversations |-> c,
   result |-> [text |-> ApologyText, sources |-> << >>,
               conversationId |-> rq.conversationId, escalate |-> TRUE,
               error |-> TRUE]]

\* the success result of processMessage for the response of query
ControllerResult(rq, response) ==
  [text |-> response.text, sources |-> response.sources,
   conversationId |-> rq.conversationId,
   escalate |-> (response.escalate \/ escalationOf[response.text]),
   error |-> FALSE]

\* InsertAt(s, i, e): s with e put in after its first i elements
InsertAt(s, i, e) == SubSeq(s, 1, i) \o << e >> \o SubSeq(s, i + 1, Len(s))

\* a mutant of ControllerReturn: the assistant message takes the place of the
\* conversation's last message
ControllerReturnReplacing(rq, response, h, c) ==
  IF ~response.escalate /\ response.text = UndefinedValue
  THEN ControllerCatch(rq, h, c)
  ELSE [heap |-> [h EXCEPT ![rq.conv].messages =
                     [@ EXCEPT ![Len(@)] = AssistantMessage(response)]],
        conversations |-> MapSet(c, rq.conversationId, rq.conv),
        result |-> ControllerResult(rq, response)]

\* a mutant of ControllerReturn: the assistant message is put right after the
\* user message it answers
ControllerReturnInOrder(rq, response, h, c) ==
  IF ~response.escalate /\ response.text = UndefinedValue
  THEN ControllerCatch(rq, h, c)
  ELSE [heap |-> [h EXCEPT ![rq.conv].messages =
                     InsertAt(@, Len(rq.chatHistory) + 1, AssistantMessage(response))],
        conversations |-> MapSet(c, rq.conversationId, rq.conv),
        result |-> ControllerResult(rq, response)]

\* a mutant of ControllerReturn: the assistant message goes to the conversation
\* created first
ControllerReturnFirst(rq, response, h, c) ==
  IF ~response.escalate /\ response.text = UndefinedValue
  THEN ControllerCatch(rq, h, c)
  ELSE [heap |-> [h EXCEPT ![1].messages = Append(@, AssistantMessage(response))],
        conversations |-> MapSet(c, rq.conversationId, rq.conv),
        result |-> ControllerResult(rq, response)]

\* processMessage from the return of query on: the escalation decision, the
\* assistant message, conversations.set and the returned object; its catch
\* block when shouldEscalate is handed a text that is no string
ControllerReturn(rq, response, h, c) ==
  IF ~response.escalate /\ response.text = UndefinedValue
  THEN ControllerCatch(rq, h, c)
  ELSE [heap |-> [h EXCEPT ![rq.conv].messages = Append(@, AssistantMessage(response))],
        conversations |-> MapSet(c, rq.conversationId, rq.conv),
        result |-> ControllerResult(rq, response)]

\* LangChainService.initialize, which has no await: embeddings, vector store,
\* retriever, templates and chain are made anew and initialized is set, in one
\* step; n runs have completed before
initialize(n) == [initialized |-> TRUE, inits |-> n + 1]

\* a mutant of ensureInitialized: initialize runs in every query
ensureInitializedAlways(done, n) == initialize(n)

\* the start of query: if (!this.initialized) await this.initialize()
ensureInitialized(done, n) ==
  IF done THEN [initialized |-> done, inits |-> n] ELSE initialize(n)

\* the first step of the chain on the input of chain.invoke: question is the
\* whole input (RunnablePassthrough) and chatHistory is () => ""
chainStep1(input) == [question |-> input, chatHistory |-> ""]

\* query up to its first call that leaves the process: initialize, the formatted
\* history, and the first two steps of the chain.  Step 1 replaces chatHistory by
\* "" and wraps the whole input as question; step 2 formats the question
\* generator template and hands the prompt value to StringOutputParser, with no
\* inference call in between: the question is undefined, or the parser throws.
QueryBegin(rq, query, chatHistory) ==
  [rq EXCEPT !.message = query,
             !.chatHistory = chatHistory,
             !.formattedHistory = FormatHistory(chatHistory),
             !.templateHistory =
               chainStep1([question |-> query,
                           chatHistory |-> FormatHistory(chatHistory)]).chatHistory,
             !.condensed = TRUE,
             !.question = UndefinedValue]

\* the locals of a call once it has its result
Returned(rq, result) == [rq EXCEPT !.pc = "done", !.result = result]

\* the object a direct caller of query receives
DirectResult(response) ==
  [text |-> response.text, sources |-> response.sources, conversationId |-> NoId,
   escalate |-> response.escalate, error |-> response.error]

\* ------------------------------------------------------- chat: the actions
\* processMessage(message, supplied) up to the first call that leaves the
\* process; t is the reading of Date.now() and suffix the random suffix.  In a
\* build whose parser throws, query fails before any such call and
\* processMessage runs to its end.
ProcessMessage(r, message, supplied, suffix, t) ==
  /\ req[r].pc = "idle"
  /\ now' = t
  /\ LET create == needsNewConversation(supplied, conversations)
         cid == conversationIdFor(supplied, conversations, t, suffix)
         ref == IF create THEN Len(heap) + 1 ELSE conversations[cid]
         heap1 == IF create THEN Append(heap, NewConversation(cid, t)) ELSE heap
         convs1 == IF create THEN MapSet(conversations, cid, ref) ELSE conversations
         heap2 == [heap1 EXCEPT ![ref].messages = Append(@, UserMessage(message))]
         log == IF create
                THEN Append(created,
                       [id |-> cid, supplied |-> supplied, time |-> t,
                        random |-> suffix,
                        replaced |-> cid \in DOMAIN conversations])
                ELSE created
         rq == QueryBegin([IdleReq EXCEPT !.via = "processMessage",
                                          !.supplied = supplied,
                                          !.known = ~create,
                                          !.createdAs = IF create THEN Len(log) ELSE 0,
                                          !.conversationId = cid,
                                          !.conv = ref],
                          message, chatHistoryOf(heap2[ref].messages))
         out == ControllerReturn(rq, QueryCatch(ErrParser), heap2, convs1)
     IN  /\ created' = log
         /\ IF parserBuild = "throws"
            THEN /\ heap' = out.heap
                 /\ conversations' = out.conversations
                 /\ req' = [req EXCEPT ![r] = Returned(rq, out.result)]
            ELSE /\ heap' = heap2
                 /\ conversations' = convs1
                 /\ req' = [req EXCEPT ![r] = [rq EXCEPT !.pc = "retrieve"]]
  /\ initialized' = ensureInitialized(initialized, inits).initialized
  /\ inits' = ensureInitialized(initialized, inits).inits
  /\ calls' = calls + 1
  /\ UNCHANGED << parserBuild, storeVars, escVars,
                  adminVars, hist, client >>

\* query(question) called with the default, empty chat history
Query(r, question) ==
  /\ req[r].pc = "idle"
  /\ LET rq == QueryBegin([IdleReq EXCEPT !.via = "query"], question, << >>)
     IN  req' = [req EXCEPT ![r] =
                   IF parserBuild = "throws"
                   THEN Returned(rq, DirectResult(QueryCatch(ErrParser)))
                   ELSE [rq EXCEPT !.pc = "retrieve"]]
  /\ initialized' = ensureInitialized(initialized, inits).initialized
  /\ inits' = ensureInitialized(initialized, inits).inits
  /\ calls' = calls + 1
  /\ UNCHANGED << now, parserBuild, conversations, heap, created, storeVars, escVars,
                  adminVars, hist, client >>

\* step 3 of the chain and the QA template: retrieveDocuments(question), which
\* turns a failure of the embedding or vector-store call into the context ""
RetrieveDocuments(r, ok) ==
  /\ req[r].pc = "retrieve"
  /\ LET rq == req[r]
         docs == IF ok THEN Retrieve(store, rq.question) ELSE << >>
     IN  req' = [req EXCEPT ![r] =
                   [rq EXCEPT !.pc = "infer",
                              !.ctx = IF ok THEN "ok" ELSE "failed",
                              !.ctxDocs = docs,
                              !.prompt = [question |-> rq.question,
                                          context |-> formatDocumentsAsString(docs)]]]
  /\ UNCHANGED << now, parserBuild, conversations, heap, initialized, inits, calls, created,
                  storeVars, escVars,
                  adminVars, hist, client >>

\* callLlamaServer(prompt): the content of the answer, or the apology when the
\* HTTP call throws or times out
CallLlamaServer(r, outcome) ==
  /\ req[r].pc = "infer"
  /\ req' = [req EXCEPT ![r] =
               [@ EXCEPT !.pc = "sources",
                         !.llm = IF outcome = LlamaFailed THEN "failed" ELSE "ok",
                         !.llmText = IF outcome = LlamaFailed THEN ApologyText
                                     ELSE outcome]]
  /\ UNCHANGED << now, parserBuild, conversations, heap, initialized, inits, calls, created,
                  storeVars, escVars,
                  adminVars, hist, client >>

\* the second retrieval of query, made with the raw query, and everything
\* after it: query returns (from its try block or its catch block) and its
\* caller runs to its end
GetSources(r, ok, error) ==
  /\ req[r].pc = "sources"
  /\ LET rq0 == req[r]
         docs == IF ok THEN Retrieve(store, rq0.message) ELSE << >>
         rq == [rq0 EXCEPT !.src = IF ok THEN "ok" ELSE "failed",
                           !.srcError = error,
                           !.srcDocs = docs]
         response == IF ok THEN QueryReturn(rq.llmText, docs) ELSE QueryCatch(error)
         out == ControllerReturn(rq, response, heap, conversations)
     IN  IF rq.via = "processMessage"
         THEN /\ heap' = out.heap
              /\ conversations' = out.conversations
              /\ req' = [req EXCEPT ![r] = Returned(rq, out.result)]
         ELSE /\ req' = [req EXCEPT ![r] = Returned(rq, DirectResult(response))]
              /\ UNCHANGED << heap, conversations >>
  /\ UNCHANGED << now, parserBuild, initialized, inits, calls, created, storeVars, escVars,
                  adminVars, hist, client >>

\* the caller has its result: the slot is free again
Respond(r) ==
  /\ req[r].pc = "done"
  /\ req' = [req EXCEPT ![r] = IdleReq]
  /\ UNCHANGED << now, parserBuild, conversations, heap, initialized, inits, calls, created,
                  storeVars, escVars,
                  adminVars, hist, client >>

\* ------------------------------------------- document processor: the actions
\* processFile(filePath) up to loader.load(): an extension without a loader
\* throws at once
ProcessFile(filePath) ==
  /\ ing.pc = "idle"
  /\ ing' = IF Str(toLowerCase(Chars(extname(filePath)))) \notin loaders
            THEN [pc |-> "done", op |-> "processFile", arg |-> filePath,
                  outcome |-> "unsupported"]
            ELSE [pc |-> "load", op |-> "processFile", arg |-> filePath,
                  outcome |-> "none"]
  /\ ops' = ops + 1
  /\ UNCHANGED << now, parserBuild, chatVars, store, manifest, escVars,
                  adminVars, hist, client >>

\* processFile of scripts/ingest.js, as main calls it for --file, up to
\* loader.load(): for an extension without a loader it warns on the console and
\* returns undefined
IngestProcessFile(filePath) ==
  /\ ing.pc = "idle"
  /\ ing' = IF Str(toLowerCase(Chars(extname(filePath)))) \notin loaders
            THEN [pc |-> "done", op |-> "ingest", arg |-> filePath,
                  outcome |-> "skipped"]
            ELSE [pc |-> "load", op |-> "ingest", arg |-> filePath,
                  outcome |-> "none"]
  /\ ops' = ops + 1
  /\ UNCHANGED << now, parserBuild, chatVars, store, manifest, escVars,
                  adminVars, hist, client >>

\* loader.load() and splitDocuments: a failure ends the ingestion
LoadAndSplit(ok) ==
  /\ ing.pc = "load"
  /\ ing' = IF ok THEN [ing EXCEPT !.pc = "store"]
            ELSE [ing EXCEPT !.pc = "done", !.outcome = FailureOutcome(ing.op)]
  /\ UNCHANGED << now, parserBuild, chatVars, store, manifest, ops, escVars,
                  adminVars, hist, client >>

\* Chroma.fromDocuments adds the chunks to the collection, then the manifest
\* file is written; a failure of the vector store ends the ingestion
StoreDocuments(ok) ==
  /\ ing.pc = "store"
  /\ IF ok
     THEN /\ store' = fromDocuments(store, processedDocs(ing.arg))
          /\ manifest' = MapSet(manifest,
                           ManifestKey(ing.arg,
                                       Str(toLowerCase(Chars(extname(ing.arg))))),
                           IF ing.op = "ingest" THEN ScriptManifestInfo(ing.arg)
                           ELSE ManifestInfo(ing.arg))
          /\ ing' = [ing EXCEPT !.pc = "done", !.outcome = "ok"]
     ELSE /\ ing' = [ing EXCEPT !.pc = "done", !.outcome = FailureOutcome(ing.op)]
          /\ UNCHANGED << store, manifest >>
  /\ UNCHANGED << now, parserBuild, chatVars, ops, escVars,
                  adminVars, hist, client >>

\* deleteDocument(id) up to client.delete
DeleteDocument(id) ==
  /\ ing.pc = "idle"
  /\ ing' = [pc |-> "delete", op |-> "deleteDocument", arg |-> id, outcome |-> "none"]
  /\ ops' = ops + 1
  /\ UNCHANGED << now, parserBuild, chatVars, store, manifest, escVars,
                  adminVars, hist, client >>

\* client.delete({ where: { source: id } }), then the manifest file of the ID
\* is removed if it exists; a failure of the vector store is thrown to the caller
DeleteVectors(ok) ==
  /\ ing.pc = "delete"
  /\ IF ok
     THEN /\ store' = SelectSeq(store, LAMBDA d : d.metadata.source # ing.arg)
          /\ manifest' = MapDelete(manifest, ManifestKey(ing.arg, extname(ing.arg)))
          /\ ing' = [ing EXCEPT !.pc = "done", !.outcome = "ok"]
     ELSE /\ ing' = [ing EXCEPT !.pc = "done", !.outcome = "failed"]
          /\ UNCHANGED << store, manifest >>
  /\ UNCHANGED << now, parserBuild, chatVars, ops, escVars,
                  adminVars, hist, client >>

\* the caller of processFile or deleteDocument has its outcome
StoreRespond ==
  /\ ing.pc = "done"
  /\ ing' = IdleIng
  /\ UNCHANGED << now, parserBuild, chatVars, store, manifest, ops, escVars,
                  adminVars, hist, client >>

\* ------------------------------------------------- escalation: the actions
\* !conversationId || !conversations.has(conversationId)
escalationRejected(conversationId, convs) ==
  conversationId = NoId \/ conversationId \notin DOMAIN convs

\* a mutant of handleEscalation: the conversation is not looked up
handleEscalationUnchecked(conversationId, reason, convs, t, suffix) ==
  IF conversationId = NoId
  THEN [threw |-> TRUE, ticket |-> NoTicket]
  ELSE [threw |-> FALSE,
        ticket |-> [escalationId |-> "esc-" \o ToString(t) \o "-" \o suffix,
                    conversationId |-> conversationId, reason |-> reason,
                    status |-> "pending"]]

\* handleEscalation(conversationId, reason): it throws, or returns the ticket
handleEscalation(conversationId, reason, convs, t, suffix) ==
  IF escalationRejected(conversationId, convs)
  THEN [threw |-> TRUE, ticket |-> NoTicket]
  ELSE [threw |-> FALSE,
        ticket |-> [escalationId |-> "esc-" \o ToString(t) \o "-" \o suffix,
                    conversationId |-> conversationId, reason |-> reason,
                    status |-> "pending"]]

\* handleEscalation called by a user of the controller module
HandleEscalation(conversationId, reason, suffix, t) ==
  /\ now' = t
  /\ LET out == handleEscalation(conversationId, reason, conversations, t, suffix)
     IN  /\ esc' = [op |-> "handleEscalation", called |-> TRUE,
                 conversationId |-> conversationId, reason |-> reason,
                 known |-> conversationId \in DOMAIN conversations,
                 threw |-> out.threw, ticket |-> out.ticket,
                 http |-> 0, body |-> ""]
         /\ issued' = IF out.threw THEN issued ELSE issued \cup { out.ticket }
  /\ escs' = escs + 1
  /\ UNCHANGED << parserBuild, chatVars, storeVars, adminVars, hist, client >>

\* POST /api/chat/escalate: 400 without a conversation ID, 500 when the
\* controller throws, else 200 with the ticket; reason "" is no reason given
PostEscalate(conversationId, reason, suffix, t) ==
  /\ now' = t
  /\ LET given == IF reason = "" THEN DefaultReason ELSE reason
         out == handleEscalation(conversationId, given, conversations, t, suffix)
     IN  /\ esc' = IF conversationId = NoId
                THEN [op |-> "route", called |-> FALSE,
                      conversationId |-> conversationId, reason |-> reason,
                      known |-> FALSE, threw |-> FALSE, ticket |-> NoTicket,
                      http |-> 400, body |-> "Conversation ID is required"]
                ELSE [op |-> "route", called |-> TRUE,
                      conversationId |-> conversationId, reason |-> given,
                      known |-> conversationId \in DOMAIN conversations,
                      threw |-> out.threw, ticket |-> out.ticket,
                      http |-> IF out.threw THEN 500 ELSE 200,
                      body |-> IF out.threw THEN "Failed to escalate conversation"
                               ELSE ""]
         /\ issued' = IF conversationId = NoId \/ out.threw THEN issued
                      ELSE issued \cup { out.ticket }
  /\ escs' = escs + 1
  /\ UNCHANGED << parserBuild, chatVars, storeVars, adminVars, hist, client >>

\* ------------------------------------------------------------ specifications
\* the conversation IDs a caller may supply
SuppliedIds == { NoId, ForeignId } \cup DOMAIN conversations

\* the random suffixes a call may draw: Math.random is called only when an ID
\* is generated
DrawnSuffixes(generates) == IF generates THEN Suffixes ELSE { NoSuffix }

\* the readings of Date.now() a call may make for an ID, up to c: the clock is
\* read only when an ID is generated
ClockReadings(generates, c) == IF generates THEN now..c ELSE { now }

\* calls of processMessage in the slots of slots with the messages of
\* questions and the ID of a conversation of the store or one of ids, at most n
\* started, with clock readings up to c and the inference server's outcomes
\* drawn from outs
Calls(slots, questions, ids, n, c, outs) ==
  \/ \E r \in slots, m \in questions, id \in ids \cup DOMAIN conversations :
       \E suffix \in DrawnSuffixes(needsNewConversation(id, conversations)),
          t \in ClockReadings(needsNewConversation(id, conversations), c) :
         calls < n /\ ProcessMessage(r, m, id, suffix, t)
  \/ \E r \in slots, ok \in BOOLEAN : RetrieveDocuments(r, ok)
  \/ \E r \in slots, o \in outs : CallLlamaServer(r, o)
  \/ \E r \in slots : GetSources(r, TRUE, NoError)
  \/ \E r \in slots, e \in RetrievalErrors : GetSources(r, FALSE, e)
  \/ \E r \in slots : Respond(r)

\* calls of processMessage made one at a time
Messages(n, c, outs) ==
  Calls(Sequential, Questions, { NoId, ForeignId }, n, c, outs)

\* calls of processMessage and direct calls of query, at most n started
Chat(n, c) ==
  \/ Messages(n, c, LlamaOutcomes)
  \/ \E r \in Sequential, q \in Questions : calls < n /\ Query(r, q)

\* the document processor with at most n calls started
Documents(n) ==
  \/ \E p \in IngestPaths : ops < n /\ ProcessFile(p)
  \/ \E ok \in BOOLEAN : LoadAndSplit(ok)
  \/ \E ok \in BOOLEAN : StoreDocuments(ok)
  \/ \E id \in DeleteIds : ops < n /\ DeleteDocument(id)
  \/ \E ok \in BOOLEAN : DeleteVectors(ok)
  \/ StoreRespond

\* escalation requests, at most n, with clock readings up to c
Escalations(n, c) ==
  \/ \E id \in SuppliedIds :
       \E suffix \in DrawnSuffixes(~escalationRejected(id, conversations)),
          t \in ClockReadings(~escalationRejected(id, conversations), c) :
         escs < n /\ HandleEscalation(id, ReasonTest, suffix, t)
  \/ \E id \in SuppliedIds, reason \in { "", ReasonTest } :
       \E suffix \in DrawnSuffixes(~escalationRejected(id, conversations)),
          t \in ClockReadings(~escalationRejected(id, conversations), c) :
         escs < n /\ PostEscalate(id, reason, suffix, t)

\* the chat controller alone
Next == Messages(MaxCalls, MaxClock, LlamaOutcomes)

Spec == Init /\ [][Next]_vars

\* the chat service while documents are ingested and deleted
NextQuery == Chat(MaxQueryCalls, MaxQueryClock) \/ Documents(MaxStoreOps)

SpecQuery == Init /\ [][NextQuery]_vars

\* the chat controller and the escalation requests, with an inference server
\* that fails or answers
NextEscalate == Messages(MaxChats, MaxEscalationClock, { LlamaFailed, AnswerConfident }) \/ Escalations(MaxEscalations, MaxEscalationClock)

SpecEscalate == Init /\ [][NextEscalate]_vars


\* -------------------------------------------------------- admin: the actions
\* the list GET /api/admin/escalations answers with
PlaceholderEscalations ==
  << [escalationId |-> "esc-1", conversationId |-> "conv-1",
      status |-> StatusPending, reason |-> "User requested human assistance"],
     [escalationId |-> "esc-2", conversationId |-> "conv-2",
      status |-> StatusResolved, reason |-> "Low confidence in response"] >>

\* GET /api/admin/escalations
ListEscalations ==
  /\ admin' = [NoAdmin EXCEPT !.op = "list", !.http = 200,
                              !.list = PlaceholderEscalations]
  /\ adminOps' = adminOps + 1
  /\ UNCHANGED << now, parserBuild, chatVars, storeVars, escVars, resolved, hist, client >>

\* the answer of PUT /api/admin/escalations/:escalationId: 400 without an ID or
\* a status, else 200 with the ID and the status as they were sent
updateEscalation(escalationId, status, response, t) ==
  IF escalationId = ""
  THEN [http |-> 400, body |-> "Escalation ID is required", ticket |-> NoUpdate]
  ELSE IF status = ""
  THEN [http |-> 400, body |-> "Status is required", ticket |-> NoUpdate]
  ELSE [http |-> 200, body |-> "",
        ticket |-> [escalationId |-> escalationId, status |-> status,
                    response |-> IF response \in { UndefinedValue, "" }
                                 THEN NullText ELSE response,
                    resolvedAt |-> IF status = StatusResolved THEN t ELSE Null]]

\* PUT /api/admin/escalations/:escalationId with the body { status, response }
UpdateEscalation(escalationId, status, response, t) ==
  /\ now' = t
  /\ LET out == updateEscalation(escalationId, status, response, t)
     IN  /\ admin' = [NoAdmin EXCEPT !.op = "update",
                                     !.escalationId = escalationId,
                                     !.status = status,
                                     !.http = out.http, !.body = out.body,
                                     !.ticket = out.ticket]
         /\ resolved' = IF out.http = 200 /\ out.ticket.status = StatusResolved
                        THEN resolved \cup { escalationId }
                        ELSE resolved
  /\ adminOps' = adminOps + 1
  /\ UNCHANGED << parserBuild, chatVars, storeVars, escVars, hist, client >>

\* the escalation IDs an admin may send: those of the tickets made, and one
\* that no escalation created
EscalationIds == { k.escalationId : k \in issued } \cup { UnknownEscalationId }

\* requests to the admin routes, at most n, with clock readings up to c
Admin(n, c) ==
  \/ adminOps < n /\ ListEscalations
  \/ \E id \in EscalationIds, status \in UpdateStatuses,
        response \in { UndefinedValue, ResponseFixed } :
       \E t \in ClockReadings(status = StatusResolved, c) :
         adminOps < n /\ UpdateEscalation(id, status, response, t)

\* the chat controller, the escalation requests and the admin routes, with an
\* inference server that answers
NextAdmin ==
  \/ Messages(MaxChats, MaxEscalationClock, { AnswerConfident })
  \/ Escalations(MaxEscalations, MaxEscalationClock)
  \/ Admin(MaxAdminOps, MaxEscalationClock)

SpecAdmin == Init /\ [][NextAdmin]_vars

\* getConversationHistory(conversationId): the conversation, or null (0)
getConversationHistory(conversationId, convs) ==
  IF conversationId = NoId \/ conversationId \notin DOMAIN convs
  THEN 0
  ELSE convs[conversationId]

GetConversationHistory(conversationId) ==
  /\ hist' = [called |-> TRUE, conversationId |-> conversationId,
              conv |-> getConversationHistory(conversationId, conversations)]
  /\ UNCHANGED << now, parserBuild, chatVars, storeVars, escVars, adminVars,
                  client >>

\* processMessage with up to two calls under way at a time, at most n calls in
\* all, while the vector store and the inference server answer every request
ConcurrentCalls(n) ==
  \/ \E r \in Slots, m \in Questions, id \in { NoId } \cup DOMAIN conversations :
       \E suffix \in DrawnSuffixes(needsNewConversation(id, conversations)) :
         calls < n /\ ProcessMessage(r, m, id, suffix, now)
  \/ \E r \in Slots : RetrieveDocuments(r, TRUE)
  \/ \E r \in Slots, o \in Answers : CallLlamaServer(r, o)
  \/ \E r \in Slots : GetSources(r, TRUE, NoError)
  \/ \E r \in Slots : Respond(r)

NextConcurrent == ConcurrentCalls(MaxConcurrentCalls)

SpecConcurrent == Init /\ [][NextConcurrent]_vars

\* the chat controller alone, where every step the server has pending is
\* eventually taken
NextLive == Messages(MaxLiveCalls, MaxClock, LlamaOutcomes)

SpecLive == Init /\ [][NextLive]_vars /\ WF_vars(NextLive)

\* the chat controller with its three exports: processMessage one call at a
\* time, handleEscalation and getConversationHistory
NextHistory ==
  \/ Calls(Sequential, Questions, { NoId }, MaxCalls, now, { AnswerConfident })
  \/ \E id \in SuppliedIds :
       \E suffix \in DrawnSuffixes(~escalationRejected(id, conversations)) :
         escs < MaxEscalations /\ HandleEscalation(id, ReasonTest, suffix, now)
  \/ \E id \in SuppliedIds : GetConversationHistory(id)

SpecHistory == Init /\ [][NextHistory]_vars

\* the files an ingestion may be asked for: those of IngestPaths, a second
\* file named faq, the file that is ingested already, and a file whose
\* extension is in upper case
AllIngestPaths == IngestPaths \cup { PathFaqTxt, PathFaq, PathNoteUpper }

\* the document IDs a deletion may be asked for: those of DeleteIds and the
\* file whose extension is in upper case
AllDeleteIds == DeleteIds \cup { basename(PathNoteUpper) }

\* the document processor and the ingest script run for one file, at most n
\* calls in all
Ingestions(n) ==
  \/ Documents(n)
  \/ \E p \in AllIngestPaths \ IngestPaths : ops < n /\ ProcessFile(p)
  \/ \E p \in AllIngestPaths : ops < n /\ IngestProcessFile(p)
  \/ \E id \in AllDeleteIds \ DeleteIds : ops < n /\ DeleteDocument(id)

NextIngest == Ingestions(MaxIngestOps)

SpecIngest == Init /\ [][NextIngest]_vars

\* query and processMessage one call at a time, and the ingestion of a file of
\* four full chunks
NextPrompt ==
  \/ Chat(MaxQueryCalls, MaxQueryClock)
  \/ ops < MaxStoreOps /\ ProcessFile(PathGlossary)
  \/ \E ok \in BOOLEAN : LoadAndSplit(ok)
  \/ \E ok \in BOOLEAN : StoreDocuments(ok)
  \/ StoreRespond

SpecPrompt == Init /\ [][NextPrompt]_vars

\* Chat.handleSendMessage up to the request: POST /api/chat/message with the
\* conversation ID the page holds
HandleSendMessage(content, suffix, t) ==
  ProcessMessage(1, content, client.conversationId, suffix, t)

\* Chat.handleSendMessage from the response on: the page stores the
\* conversation ID of the response if it holds none
ReceiveResponse ==
  /\ req[1].pc = "done"
  /\ client' = IF client.conversationId = NoId /\ req[1].result.conversationId # NoId
               THEN [client EXCEPT !.conversationId = req[1].result.conversationId]
               ELSE client
  /\ req' = [req EXCEPT ![1] = IdleReq]
  /\ UNCHANGED << now, parserBuild, conversations, heap, initialized, inits, calls, created,
                  storeVars, escVars, adminVars, hist >>

\* Chat.handleEscalation: POST /api/chat/escalate with the conversation ID the
\* page holds, and nothing when it holds none
ClientEscalation(suffix, t) ==
  /\ client.conversationId # NoId
  /\ PostEscalate(client.conversationId, "", suffix, t)

\* the server process starts again: the Map of conversations is empty, the
\* service is not initialized and the requests under way are lost
Restart ==
  /\ conversations # << >>
  /\ conversations' = << >>
  /\ heap' = << >>
  /\ req' = [r \in Slots |-> IdleReq]
  /\ initialized' = FALSE
  /\ inits' = 0
  /\ UNCHANGED << now, parserBuild, calls, created, storeVars, escVars, adminVars,
                  hist, client >>

\* the chat page against a server that answers and may restart
NextClient ==
  \/ \E m \in Questions :
       \E suffix \in DrawnSuffixes(needsNewConversation(client.conversationId,
                                                       conversations)),
          t \in ClockReadings(needsNewConversation(client.conversationId,
                                                   conversations), MaxClock) :
         calls < MaxCalls /\ HandleSendMessage(m, suffix, t)
  \/ RetrieveDocuments(1, TRUE)
  \/ \E o \in Answers : CallLlamaServer(1, o)
  \/ GetSources(1, TRUE, NoError)
  \/ ReceiveResponse
  \/ \E suffix \in DrawnSuffixes(~escalationRejected(client.conversationId,
                                                     conversations)) :
       escs < MaxEscalations /\ ClientEscalation(suffix, now)
  \/ Restart

SpecClient == Init /\ [][NextClient]_vars
\* ------------------------------------------------------------------- claims
\* a call of processMessage that has returned
Answered(r) == req[r].pc = "done" /\ req[r].via = "processMessage"

\* a call of query, direct or through processMessage, that has returned
Queried(r) == req[r].pc = "done"

\* the answers of the inference server that contain a phrase of the
\* low-confidence list, compared letter by letter without regard to case
LowConfidenceAnswers ==
  { a \in Answers :
      \E p \in lowConfidenceIndicators :
        \E i \in 1..Len(a) :
          /\ i + Len(p) - 1 <= Len(a)
          /\ \A k \in 1..Len(p) :
               ToLowerChar(SubSeq(a, i + k - 1, i + k - 1))
                 = ToLowerChar(SubSeq(p, k, k)) }

\* C1: when the HTTP call to the inference server throws or times out during a
\* chat request, processMessage returns normally with escalate = true and a
\* non-empty apology text.
C1_InferenceFailureEscalates ==
  \A r \in Slots :
    (Answered(r) /\ req[r].llm = "failed")
      => /\ req[r].result.escalate
         /\ req[r].result.text = ApologyText
         /\ Len(req[r].result.text) > 0

\* C2: when the embedding or vector-store call fails while the context is built
\* or while the sources are collected, whatever the error, the answer text is
\* the canned apology and escalate is true.
C2_RetrievalFailureEscalates ==
  \A r \in Slots :
    (Queried(r) /\ (req[r].ctx = "failed" \/ req[r].src = "failed"))
      => /\ req[r].result.text = ApologyText
         /\ req[r].result.escalate

\* C3: when the inference call succeeds with a text that contains, without
\* regard to case, a phrase of the low-confidence list, processMessage returns
\* escalate = true.
C3_LowConfidenceEscalates ==
  \A r \in Slots :
    (Answered(r) /\ req[r].llm = "ok" /\ req[r].llmText \in LowConfidenceAnswers)
      => req[r].result.escalate

\* C4: the source list of a successful query is the chunk list retrieved to
\* build the context of the prompt: one source per chunk, in the same order.
C4_SourcesAreContextChunks ==
  \A r \in Slots :
    (Queried(r) /\ req[r].src = "ok" /\ ~req[r].result.error)
      => req[r].result.sources
           = [i \in DOMAIN req[r].ctxDocs |-> SourceOf(req[r].ctxDocs[i])]

\* C5: every source returned by query reports the file name of the chunk it
\* cites and the index of that chunk in its document, from index 0 on, and the
\* page when the chunk has one.
C5_SourceReportsChunkIndex ==
  \A r \in Slots :
    (Queried(r) /\ req[r].src = "ok" /\ ~req[r].result.error)
      => /\ Len(req[r].result.sources) = Len(req[r].srcDocs)
         /\ \A i \in DOMAIN req[r].srcDocs :
              /\ req[r].result.sources[i].source = req[r].srcDocs[i].metadata.source
              /\ req[r].result.sources[i].chunk = req[r].srcDocs[i].metadata.chunk
              /\ req[r].srcDocs[i].metadata.page # Undef
                   => req[r].result.sources[i].page = req[r].srcDocs[i].metadata.page

\* C6: when query is given an empty history, the question generator is not
\* run and the question used for retrieval and for the prompt is the raw one.
C6_EmptyHistorySkipsCondensation ==
  \A r \in Slots :
    (req[r].pc # "idle" /\ req[r].chatHistory = << >>)
      => /\ ~req[r].condensed
         /\ req[r].question = req[r].message
         /\ req[r].pc \in { "infer", "sources", "done" }
              => req[r].prompt.question = req[r].message

\* the creations made by processMessage called with no conversation ID
Creations == { i \in DOMAIN created : created[i].supplied = NoId }

C9_EscalationTicket ==
  esc.called =>
    IF esc.conversationId # NoId /\ esc.conversationId \in DOMAIN conversations
    THEN /\ ~esc.threw
         /\ esc.ticket.status = "pending"
         /\ esc.ticket.conversationId = esc.conversationId
         /\ esc.ticket.reason = esc.reason
    ELSE /\ esc.threw
         /\ esc.ticket = NoTicket

\* handleEscalation has returned a ticket for a conversation of the store
C9_Witness ==
  /\ esc.op = "handleEscalation"
  /\ esc.called
  /\ esc.conversationId \in DOMAIN conversations
  /\ esc.reason = ReasonTest
  /\ esc.ticket.status = "pending"
  /\ esc.ticket.conversationId = esc.conversationId

\* C10: POST /escalate for an unknown conversation ID answers with a client
\* error, a status 4xx.
C10_UnknownConversationIsClientError ==
  (esc.op = "route" /\ esc.conversationId # NoId
     /\ esc.conversationId \notin DOMAIN conversations)
    => esc.http \in 400..499

\* the conversation IDs that can be generated in Spec
GeneratedIds ==
  { "conv-" \o ToString(t) \o "-" \o s : t \in 0..MaxClock, s \in Suffixes }

\* C11: whenever a chat request ends with escalate = true, an escalation
\* ticket for that conversation comes to exist without a further client
\* request.
C11_EscalationInvokedByServer ==
  \A id \in GeneratedIds :
    (\E r \in Slots :
       /\ Answered(r)
       /\ req[r].result.escalate
       /\ req[r].result.conversationId = id)
      ~> (\E k \in issued : k.conversationId = id)

\* C12: every ticket an escalation created is returned by every later listing
\* of escalations, and as resolved once an admin update has set it to resolved.
C12_TicketsStayListed ==
  [][ (adminOps' = adminOps + 1 /\ admin'.op = "list")
        => \A k \in issued :
             \E i \in DOMAIN admin'.list :
               /\ admin'.list[i].escalationId = k.escalationId
               /\ admin'.list[i].conversationId = k.conversationId
               /\ k.escalationId \in resolved
                    => admin'.list[i].status = StatusResolved ]_vars

\* C13: an update of an escalation ID that no escalation created fails with a
\* client error and returns no ticket.
C13_UnknownEscalationRejected ==
  (admin.op = "update"
     /\ admin.escalationId \notin { k.escalationId : k \in issued })
    => /\ admin.http \in 400..499
       /\ admin.ticket = NoUpdate

\* C14: every ticket returned by the creation and by the update of an
\* escalation has one of the statuses pending, in_progress and resolved.
C14_TicketStatusInEnum ==
  /\ \A k \in issued :
       k.status \in { StatusPending, StatusInProgress, StatusResolved }
  /\ esc.ticket # NoTicket
       => esc.ticket.status \in { StatusPending, StatusInProgress, StatusResolved }
  /\ (admin.op = "update" /\ admin.ticket # NoUpdate)
       => admin.ticket.status \in { StatusPending, StatusInProgress, StatusResolved }

\* s is a prefix of t
IsPrefix(s, t) == Len(s) <= Len(t) /\ SubSeq(t, 1, Len(s)) = s

\* the conversation objects the Map holds
Stored(convs) == { convs[id] : id \in DOMAIN convs }

UserIndex(r) == Len(req[r].chatHistory) + 1

\* C16: processMessage pushes its user message when it starts and its assistant
\* message when query has returned, each at the end of the conversation as it is
\* at that moment, whatever other calls for the same conversation have pushed
\* in between; nothing orders the replies of concurrent calls like their
\* questions.
C16_AppendsInterleave ==
  [][ \A r \in Slots :
        /\ (req[r].pc = "idle" /\ req'[r].pc # "idle" /\ req'[r].known)
             => /\ req'[r].conv = conversations[req'[r].supplied]
                /\ IsPrefix(Append(heap[req'[r].conv].messages,
                                   UserMessage(req'[r].message)),
                            heap'[req'[r].conv].messages)
        /\ (req[r].pc = "sources" /\ req'[r].pc = "done" /\ ~req'[r].result.error)
             => /\ heap'[req[r].conv].messages =
                     Append(heap[req[r].conv].messages,
                            [role |-> RoleAssistant,
                             content |-> req'[r].result.text,
                             sources |-> req'[r].result.sources])
                /\ heap'[req[r].conv].messages[UserIndex(r)] = UserMessage(req[r].message)
      ]_vars

\* two calls for one conversation have returned: the conversation holds their
\* two user messages one after the other, then the reply to the second, then
\* the reply to the first
C16_Witness ==
  \E a, b \in Slots :
    /\ a # b
    /\ req[a].pc = "done" /\ req[b].pc = "done"
    /\ req[a].known /\ req[b].known
    /\ req[a].conv = req[b].conv
    /\ req[a].result.text # req[b].result.text
    /\ LET messages == heap[req[a].conv].messages
       IN  /\ UserIndex(b) = UserIndex(a) + 1
           /\ Len(messages) = UserIndex(b) + 2
           /\ messages[UserIndex(a)] = UserMessage(req[a].message)
           /\ messages[UserIndex(b)] = UserMessage(req[b].message)
           /\ messages[UserIndex(b) + 1].role = RoleAssistant
           /\ messages[UserIndex(b) + 1].content = req[b].result.text
           /\ messages[UserIndex(b) + 2].role = RoleAssistant
           /\ messages[UserIndex(b) + 2].content = req[a].result.text

\* the conversation ID the call in slot r works for, before or after the step
CallId(r) == IF req[r].pc = "idle" THEN req'[r].conversationId ELSE req[r].conversationId

\* C17: a step of a processMessage call leaves every conversation with another
\* ID as it is, in the Map and message by message, and leaves alone every
\* conversation object but its own; the history the call hands to query is what
\* its own conversation held up to its user message, and the answer it returns
\* is the text inference returned for its own prompt when query succeeds.
C17_OtherConversationsUntouched ==
  [][ \A r \in Slots :
        /\ req'[r] # req[r] /\ req'[r].pc # "idle"
             => /\ \A id \in DOMAIN conversations \ { CallId(r) } :
                     /\ id \in DOMAIN conversations'
                     /\ conversations'[id] = conversations[id]
                     /\ heap'[conversations'[id]] = heap[conversations[id]]
                /\ \A ref \in DOMAIN heap \ { req'[r].conv } : heap'[ref] = heap[ref]
        /\ (req'[r].pc # "idle" /\ req'[r].via = "processMessage")
             => /\ heap'[req'[r].conv].id = req'[r].conversationId
                /\ req'[r].chatHistory =
                     Tail(SubSeq(heap'[req'[r].conv].messages, 1,
                                 Len(req'[r].chatHistory) + 1))
                /\ req'[r].formattedHistory = FormatHistory(req'[r].chatHistory)
        /\ (req'[r].pc = "done" /\ req'[r].via = "processMessage"
              /\ req'[r].llm = "ok" /\ req'[r].src = "ok")
             => /\ req'[r].result.text = req'[r].llmText
                /\ req'[r].result.conversationId = req'[r].conversationId
      ]_vars

\* a call for a conversation that has an answered message and a call for a
\* conversation with another ID both wait for query, each with its user
\* message pushed
C17_Witness ==
  \E a, b \in Slots :
    /\ req[a].pc = "sources" /\ req[b].pc = "sources"
    /\ req[a].via = "processMessage" /\ req[b].via = "processMessage"
    /\ req[a].known
    /\ req[a].conversationId # req[b].conversationId
    /\ req[a].conv # req[b].conv
    /\ Len(heap[req[a].conv].messages) = 4
    /\ Len(heap[req[b].conv].messages) = 2

\* the lower-cased extension of a path
ExtensionOf(filePath) == Str(toLowerCase(Chars(extname(filePath))))

\* the step starts an ingestion of filePath, by the processor or by the script
StartsIngestion(filePath) ==
  /\ ing.pc = "idle"
  /\ ing'.op \in { "processFile", "ingest" }
  /\ ing'.arg = filePath

\* C18: an ingestion of a file whose extension is none of .pdf, .docx, .txt,
\* .md ends at once with the unsupported-format error thrown to its caller,
\* with nothing loaded, no chunk stored and no manifest entry written.
C18_UnsupportedFormatReported ==
  [][ \A p \in AllIngestPaths :
        (StartsIngestion(p) /\ ExtensionOf(p) \notin { ".pdf", ".docx", ".txt", ".md" })
          => /\ ing'.pc = "done"
             /\ ing'.outcome = "unsupported"
             /\ store' = store
             /\ manifest' = manifest ]_vars

\* the step is a failing load, split or upsert of an ingestion
IngestionStepFails ==
  /\ ing.pc \in { "load", "store" }
  /\ ing.op \in { "processFile", "ingest" }
  /\ ing'.pc = "done"
  /\ ing'.outcome # "ok"

\* C19: a failing step of an ingestion is thrown to the caller as a failed
\* operation and leaves the manifest as it was; an ingestion writes the manifest
\* only in the step in which the upsert into the vector store has completed.
C19_IngestionFailurePropagates ==
  [][ /\ IngestionStepFails
        => /\ ing'.outcome = "failed"
           /\ manifest' = manifest
      /\ (manifest' # manifest /\ ing.op \in { "processFile", "ingest" })
        => /\ ing.pc = "store"
           /\ store' = store \o processedDocs(ing.arg) ]_vars

\* the source files that have chunks in the vector store
IngestedFiles == { store[i].metadata.filePath : i \in DOMAIN store }

\* the manifest holds exactly one entry for each ingested source file
OneEntryPerIngestedFile ==
  /\ Cardinality(DOMAIN manifest) = Cardinality(IngestedFiles)
  /\ { manifest[k].originalFile : k \in DOMAIN manifest } = IngestedFiles

\* C20: whenever an ingestion or a deletion has succeeded, the manifest holds
\* exactly one entry for each source file that is ingested, and a successful
\* ingestion leaves the entry of every other file as it was.
C20_OneManifestEntryPerFile ==
  [][ (ing.pc \in { "store", "delete" } /\ ing'.pc = "done" /\ ing'.outcome = "ok")
        => /\ OneEntryPerIngestedFile'
           /\ ing.pc = "store"
                => \A k \in DOMAIN manifest :
                     manifest[k].originalFile # ing.arg
                       => (k \in DOMAIN manifest' /\ manifest'[k] = manifest[k]) ]_vars

\* the chunks the collection coll holds for a source file
ChunksOf(coll, filePath) ==
  SelectSeq(coll, LAMBDA d : d.metadata.filePath = filePath)

\* the number of chunks coll holds with source name and chunk index i
Copies(coll, name, i) ==
  Cardinality({ j \in DOMAIN coll : /\ coll[j].metadata.source = name
                                    /\ coll[j].metadata.chunk = i })

\* C21: a successful processFile of a file that is ingested already keeps the
\* chunks the store holds and adds the new ones after them, so every
\* source/chunk-index pair of the file is stored once more than before, while
\* the manifest keeps a single entry for the file with the chunk count of one
\* ingestion.
C21_ReingestionAppends ==
  [][ (ing.pc = "store" /\ ing'.outcome = "ok" /\ ChunksOf(store, ing.arg) # << >>)
        => /\ store' = store \o processedDocs(ing.arg)
           /\ \A i \in 0..(Len(processedDocs(ing.arg)) - 1) :
                Copies(store', basename(ing.arg), i)
                  = Copies(store, basename(ing.arg), i) + 1
           /\ { k \in DOMAIN manifest' : manifest'[k].originalFile = ing.arg }
                = { ManifestKey(ing.arg, Str(toLowerCase(Chars(extname(ing.arg))))) }
           /\ manifest'[ManifestKey(ing.arg, Str(toLowerCase(Chars(extname(ing.arg)))))].chunks
                = Len(processedDocs(ing.arg)) ]_vars

\* faq.md has been ingested a second time with no deletion in between: each of
\* its two chunks is stored twice and its manifest entry counts two chunks
C21_Witness ==
  /\ ing.pc = "done" /\ ing.outcome = "ok" /\ ing.arg = PathFaq
  /\ Len(ChunksOf(store, PathFaq)) = 4
  /\ \A i \in 0..1 : Copies(store, "faq.md", i) = 2
  /\ manifest["faq"].chunks = 2

\* the step completes deleteDocument(id)
DeletionCompletes(id) ==
  /\ ing.pc = "delete" /\ ing.arg = id
  /\ ing'.pc = "done" /\ ing'.outcome = "ok"

\* C22: once deleteDocument(f) has completed, the vector store holds no chunk
\* whose source is f and the manifest holds no entry of the file named f.
C22_DeletionRemovesChunksAndEntry ==
  [][ \A f \in AllDeleteIds :
        DeletionCompletes(f)
          => /\ \A i \in DOMAIN store' : store'[i].metadata.source # f
             /\ \A k \in DOMAIN manifest' : basename(manifest'[k].originalFile) # f
    ]_vars

\* C23: the chunks the vector store holds for one source file carry, in
\* insertion order, the chunk indices 0, 1, 2, ... with no index repeated, and
\* are the texts of the file in document order.
C23_ChunkIndicesContiguous ==
  \A f \in AllIngestPaths :
    LET chunks == ChunksOf(store, f)
    IN  /\ \A i \in DOMAIN chunks : chunks[i].metadata.chunk = i - 1
        /\ \A i, j \in DOMAIN chunks :
             chunks[i].metadata.chunk = chunks[j].metadata.chunk => i = j
        /\ chunks # << >> => [i \in DOMAIN chunks |-> chunks[i].pageContent] = SplitTexts(f)

\* C24: the prompt a call posts to the inference server has no more tokens
\* than the configured context window.
C24_PromptWithinContextWindow ==
  \A r \in Slots :
    req[r].pc \in { "infer", "sources", "done" } /\ req[r].ctx # "none"
      => MinTokens(qaTemplate(req[r].prompt)) <= ContextWindow

\* C25: when the history handed to query is not empty, the chat history that
\* reaches the question generator template is that history, formatted as
\* "role: content" lines.
C25_CondensationUsesHistory ==
  \A r \in Slots :
    (req[r].pc # "idle" /\ req[r].chatHistory # << >>)
      => /\ req[r].templateHistory = req[r].formattedHistory
         /\ req[r].templateHistory # ""

\* C26: when a processMessage call has returned, with calls made one at a
\* time, its conversation holds what it held before the call, then the user
\* message of the call, then one assistant message with the text that was
\* returned.
C26_EveryMessageGetsItsReply ==
  \A r \in Sequential :
    Answered(r)
      => LET messages == heap[req[r].conv].messages
             n == Len(messages)
         IN  /\ n = Len(req[r].chatHistory) + 2
             /\ messages[n - 1] = UserMessage(req[r].message)
             /\ messages[n].role = RoleAssistant
             /\ messages[n].content = req[r].result.text

\* C27: whatever calls are under way, the history a processMessage call hands
\* to query holds no system message, is not empty, and ends with the user
\* message of that call.
C27_HistoryEndsWithOwnMessage ==
  \A r \in Slots :
    (req[r].via = "processMessage" /\ req[r].pc # "idle")
      => LET h == req[r].chatHistory
         IN  /\ h # << >>
             /\ h[Len(h)] = UserMessage(req[r].message)
             /\ \A i \in DOMAIN h : h[i].role # RoleSystem /\ h[i] # SystemMessage

\* two calls for one conversation wait for query: the history of the later one
\* holds the user message of the earlier one, still unanswered, before its own
C27_Witness ==
  \E a, b \in Slots :
    /\ a # b
    /\ req[a].pc = "infer" /\ req[b].pc = "retrieve"
    /\ req[a].conv = req[b].conv
    /\ Len(req[b].chatHistory) = Len(req[a].chatHistory) + 1
    /\ Len(req[a].chatHistory) >= 3
    /\ req[b].chatHistory[Len(req[b].chatHistory) - 1].role = RoleUser

\* C28: once the chat page holds a conversation ID, every message it sends is
\* appended to the conversation the server already has under that ID, and its
\* escalation request is made with that ID for that conversation.
C28_ClientKeepsOneConversation ==
  [][ client.conversationId # NoId
        => /\ (req[1].pc = "idle" /\ req'[1].pc # "idle")
                => /\ req'[1].known
                   /\ req'[1].conversationId = client.conversationId
           /\ escs' = escs + 1
                => /\ esc'.conversationId = client.conversationId
                   /\ esc'.known ]_vars

\* the chunks coll holds for the sources other than the one named f
OtherChunks(coll, f) == SelectSeq(coll, LAMBDA d : d.metadata.source # f)

\* C29: a deleteDocument(f) that completes leaves the chunks and the manifest
\* entry of every file other than f as they were.
C29_DeletionLeavesOtherFiles ==
  [][ \A f \in AllDeleteIds :
        DeletionCompletes(f)
          => /\ OtherChunks(store', f) = OtherChunks(store, f)
             /\ \A k \in DOMAIN manifest :
                  basename(manifest[k].originalFile) # f
                    => (k \in DOMAIN manifest' /\ manifest'[k] = manifest[k]) ]_vars

\* C30: whatever calls are under way, initialize completes at most once: once
\* initialized is true it stays true and no step runs initialize again.
C30_InitializeRunsOnce ==
  [][ /\ inits' <= 1
      /\ initialized' <=> inits' = 1
      /\ initialized => (initialized' /\ inits' = inits) ]_vars

\* two calls wait for query at once, the second having started after the first
\* had initialized the service
C30_Witness ==
  /\ initialized /\ inits = 1
  /\ \A r \in Slots : req[r].pc \in { "retrieve", "infer", "sources" }
  /\ calls >= 2
====
